---- MODULE Spec2Model ----
(***************************************************************************)
(* hagakure: repository bootstrap / lookup (GitRepository::new,            *)
(* repo_create, repo_find, repo_dir, repo_file) and the loose object       *)
(* reader and writer (object_read, object_write) of src/src/lib.rs.        *)
(*                                                                         *)
(* Bytes are their integer values, file system paths are sequences of      *)
(* component names below the root <<>>.                                    *)
(***************************************************************************)
EXTENDS Integers, Sequences, FiniteSets, TLC

VARIABLES fs, last, find, buf, decoded, origin

vars == <<fs, last, find, buf, decoded, origin>>

-----------------------------------------------------------------------------
(* Bounds of the exploration.                                              *)

\* longest payload of an object that is encoded / written
MaxLen == 2
\* longest raw buffer handed to the header parser
MaxBuf == 4
\* number of nested repo_find frames the stack holds
MaxStack == 3
\* largest repositoryformatversion a config of the initial file systems declares
MaxVers == 2

-----------------------------------------------------------------------------
(* Bytes, decimal text, the object header.                                 *)

\* b' '
SP == 32
\* b'\x00'
NUL == 0
\* '+', accepted as a leading sign by the integer parsers
PLUS == 43
\* '0'
ZERO == 48

Blob == <<98, 108, 111, 98>>
Tree == <<116, 114, 101, 101>>
Commit == <<99, 111, 109, 109, 105, 116>>
Tag == <<116, 97, 103>>
TypeTags == {Blob, Tree, Commit, Tag}

IsDigit(b) == b >= ZERO /\ b <= ZERO + 9

\* Display of an unsigned integer: its decimal digits
RECURSIVE Dec(_)
Dec(n) == IF n < 10 THEN <<ZERO + n>> ELSE Dec(n \div 10) \o <<ZERO + (n % 10)>>

RECURSIVE DigitsValue(_)
DigitsValue(s) ==
    IF s = <<>> THEN 0
    ELSE 10 * DigitsValue(SubSeq(s, 1, Len(s) - 1)) + (s[Len(s)] - ZERO)

\* str::parse for an unsigned integer: an optional '+', then one or more
\* decimal digits and nothing else; -1 stands for Err(ParseIntError).
ParseUnsigned(s) ==
    LET d == IF s # <<>> /\ s[1] = PLUS THEN Tail(s) ELSE s
    IN  IF d = <<>> \/ \E i \in 1..Len(d) : ~IsDigit(d[i]) THEN -1
        ELSE DigitsValue(d)

\* iter().position(|&x| x == b): 1-based index of the first b, 0 for None
Position(s, b) ==
    IF \E i \in 1..Len(s) : s[i] = b
    THEN CHOOSE i \in 1..Len(s) : s[i] = b /\ \A j \in 1..(i - 1) : s[j] # b
    ELSE 0

\* Debug of a byte slice: "[98, 108, 111, 98]"
RECURSIVE DebugItems(_)
DebugItems(s) ==
    IF s = <<>> THEN <<>>
    ELSE IF Len(s) = 1 THEN Dec(s[1])
    ELSE Dec(s[1]) \o <<44, SP>> \o DebugItems(Tail(s))

DebugBytes(s) == <<91>> \o DebugItems(s) \o <<93>>

\* the outcome of a call: Ok, Err(err) or a panic (process abort); arg is
\* the number an error message carries, -1 when it carries none
OutcomeV(k, e, v) == [kind |-> k, err |-> e, arg |-> v]
Outcome(k, e) == OutcomeV(k, e, -1)

\* The header parsing of object_read over the bytes it took from the file.
\* The declared size is parsed from the bytes fmt_end..size_end, a range
\* that starts at the space itself.
SizeText(data, fmtEnd, sizeEnd) == SubSeq(data, fmtEnd, sizeEnd - 1)

\* The type dispatch: every arm of the match is empty and control falls to
\* the final return for all four tags.
Dispatch(fmt) == Outcome("Err", "UnknownObjectType")

\* what the parser hands back: the outcome, and the object of an Ok
Parsed(o, fmt, payload) == [res |-> o, fmt |-> fmt, payload |-> payload]
Failed(o) == Parsed(o, <<>>, <<>>)

Decode(data) ==
    LET fmtEnd == Position(data, SP)
        sizeEnd == Position(data, NUL)
    IN  IF fmtEnd = 0 THEN Failed(Outcome("Err", "MalformedHeader"))
        ELSE IF sizeEnd = 0 THEN Failed(Outcome("Err", "MalformedHeader"))
        ELSE IF fmtEnd > sizeEnd THEN Failed(Outcome("Panic", "SliceIndexOrder"))
        ELSE LET size == ParseUnsigned(SizeText(data, fmtEnd, sizeEnd))
             IN  IF size < 0 THEN Failed(Outcome("Panic", "ParseIntError"))
                 ELSE IF size # Len(data) - sizeEnd
                 THEN Failed(Outcome("Err", "LengthMismatch"))
                 ELSE Failed(Dispatch(SubSeq(data, 1, fmtEnd - 1)))

\* The bytes object_write hashes: the Debug form of the type name, a space,
\* the payload length, NUL, the payload.
WriteEncode(fmt, data) == DebugBytes(fmt) \o <<SP>> \o Dec(Len(data)) \o <<NUL>> \o data

\* A buffer with a well-formed header: '<type> <n> NUL <payload>'; the
\* canonical form of a stored object declares the payload's own length.
Header(fmt, n, data) == fmt \o <<SP>> \o Dec(n) \o <<NUL>> \o data
CanonicalEncode(fmt, data) == Header(fmt, Len(data), data)

-----------------------------------------------------------------------------
(* The file system: directories, and files with their contents.            *)

Root == <<>>
GitName == ".git"

Join(p, name) == Append(p, name)
Parent(p) == SubSeq(p, 1, Len(p) - 1)
Prefixes(p) == {SubSeq(p, 1, n) : n \in 0..Len(p)}

IsFile(f, p) == p \in DOMAIN f.files
IsDir(f, p) == p \in f.dirs
Exists(f, p) == IsDir(f, p) \/ IsFile(f, p)
Entries(f) == f.dirs \cup DOMAIN f.files
Children(f, p) == {q \in Entries(f) : Len(q) = Len(p) + 1 /\ Parent(q) = p}

\* fs::create_dir_all fails when a component of the path is a file, and then
\* creates nothing
CanCreateDirAll(f, p) == \A q \in Prefixes(p) : ~IsFile(f, q)
CreateDirAll(f, p) == [f EXCEPT !.dirs = @ \cup Prefixes(p)]

\* fs::write creates or truncates the file; its directory must exist
CanWrite(f, p) == p # Root /\ IsDir(f, Parent(p)) /\ ~IsDir(f, p)
WriteFile(f, p, c) ==
    [f EXCEPT !.files = [q \in DOMAIN f.files \cup {p} |-> IF q = p THEN c ELSE f.files[q]]]

\* file contents: an ini text (its core section), a plain text, raw bytes,
\* or a text the ini parser rejects
EmptyIni == [k \in {} |-> <<>>]
IniFile(ini) == [kind |-> "ini", ini |-> ini, text |-> "", bytes |-> <<>>]
TextFile(t) == [kind |-> "text", ini |-> EmptyIni, text |-> t, bytes |-> <<>>]
BytesFile(b) == [kind |-> "bytes", ini |-> EmptyIni, text |-> "", bytes |-> b]
GarbageFile == [kind |-> "garbage", ini |-> EmptyIni, text |-> "", bytes |-> <<>>]

-----------------------------------------------------------------------------
(* GitRepository::new, repo_path, repo_dir, repo_file, repo_create.        *)

VersKey == "repositoryformatversion"
FalseText == <<102, 97, 108, 115, 101>>

repo_default_config ==
    [k \in {VersKey, "filemode", "bare"} |-> IF k = VersKey THEN Dec(0) ELSE FalseText]

DescriptionText == "Unnamed repository; edit this file 'description' to name the repository."
\* HEAD written without its line end
HeadTextNoNewline == "ref: refs/heads/master"
HeadText == "ref: refs/heads/master\n"

NoHandle == [worktree |-> Root, gitdir |-> Root, conf |-> EmptyIni]
Handle(w, c) == [worktree |-> w, gitdir |-> Join(w, GitName), conf |-> c]

\* a call's return: its outcome, and the handle when the outcome is Ok of one
Ret(o, h) == [res |-> o, handle |-> h]

\* Ini::load_from_file succeeds on a file holding ini text
Loadable(f, p) == IsFile(f, p) /\ f.files[p].kind = "ini"

\* a version test that lets version 1 through
VersionRejectedAboveOne(v) == v > 1
\* the version test of GitRepository::new
VersionRejected(v) == v # 0

\* GitRepository::new(path, force); reads the file system, never writes it
GitRepositoryNew(f, path, force) ==
    LET gitdir == Join(path, GitName)
        cfg == Join(gitdir, "config")
    IN  IF ~(force \/ IsDir(f, gitdir))
        THEN Ret(Outcome("Err", "NotARepository"), NoHandle)
        ELSE IF Exists(f, cfg) /\ ~Loadable(f, cfg)
        THEN Ret(Outcome("Panic", "IniLoad"), NoHandle)
        ELSE IF ~Exists(f, cfg) /\ ~force
        THEN Ret(Outcome("Err", "ConfigMissing"), NoHandle)
        ELSE LET conf == IF Exists(f, cfg) THEN f.files[cfg].ini ELSE EmptyIni
             IN  IF force THEN Ret(Outcome("Ok", ""), Handle(path, conf))
                 ELSE IF VersKey \notin DOMAIN conf
                 THEN Ret(Outcome("Panic", "UnwrapNone"), NoHandle)
                 ELSE LET vers == ParseUnsigned(conf[VersKey])
                      IN  IF vers < 0 THEN Ret(Outcome("Panic", "ParseIntError"), NoHandle)
                          ELSE IF VersionRejected(vers)
                          THEN Ret(OutcomeV("Err", "UnsupportedFormatVersion", vers), NoHandle)
                          ELSE Ret(Outcome("Ok", ""), Handle(path, conf))

repo_path(gitdir, paths) == gitdir \o paths

\* a file system step: the file system after it and the step's outcome
Fx(f, o) == [fs |-> f, res |-> o]

repo_dir(f, gitdir, paths, mkdir) ==
    LET path == repo_path(gitdir, paths)
    IN  IF Exists(f, path)
        THEN IF IsDir(f, path) THEN Fx(f, Outcome("Ok", ""))
             ELSE Fx(f, Outcome("Err", "NotADirectory"))
        ELSE IF mkdir
        THEN IF CanCreateDirAll(f, path) THEN Fx(CreateDirAll(f, path), Outcome("Ok", ""))
             ELSE Fx(f, Outcome("Panic", "CreateDirAll"))
        ELSE Fx(f, Outcome("Err", "FailedToCreateDir"))

repo_file(f, gitdir, paths, mkdir) == repo_dir(f, gitdir, SubSeq(paths, 1, Len(paths) - 1), mkdir)

\* fs::write(repo_file(repo, [name], false).unwrap(), content).unwrap()
WriteRepoFile(f, gitdir, name, content) ==
    LET d == repo_file(f, gitdir, <<name>>, FALSE)
        path == repo_path(gitdir, <<name>>)
    IN  IF d.res.kind # "Ok" THEN Fx(f, Outcome("Panic", "UnwrapErr"))
        ELSE IF ~CanWrite(f, path) THEN Fx(f, Outcome("Panic", "Write"))
        ELSE Fx(WriteFile(f, path, content), Outcome("Ok", ""))

\* the directories repo_create makes, in its order
SkeletonDirs == << <<"branches">>, <<"objects">>, <<"refs", "tags">>, <<"refs", "heads">> >>

\* the files repo_create writes, in its order
SkeletonFiles ==
    << <<"description", TextFile(DescriptionText)>>,
       <<"HEAD", TextFile(HeadText)>>,
       <<"config", IniFile(repo_default_config)>> >>

\* the repo_dir(.., true)? calls from the i-th on; stops at the first that
\* does not return Ok
RECURSIVE MakeDirs(_, _, _)
MakeDirs(f, gitdir, i) ==
    IF i > Len(SkeletonDirs) THEN Fx(f, Outcome("Ok", ""))
    ELSE LET d == repo_dir(f, gitdir, SkeletonDirs[i], TRUE)
         IN  IF d.res.kind # "Ok" THEN d ELSE MakeDirs(d.fs, gitdir, i + 1)

RECURSIVE WriteFiles(_, _, _)
WriteFiles(f, gitdir, i) ==
    IF i > Len(SkeletonFiles) THEN Fx(f, Outcome("Ok", ""))
    ELSE LET w == WriteRepoFile(f, gitdir, SkeletonFiles[i][1], SkeletonFiles[i][2])
         IN  IF w.res.kind # "Ok" THEN w ELSE WriteFiles(w.fs, gitdir, i + 1)

\* GitRepository::repo_create(path): the file system after it and its return
repo_create(f, path) ==
    LET repo == GitRepositoryNew(f, path, TRUE)
        h == repo.handle
        Fail(g, o) == [fs |-> g, ret |-> Ret(o, NoHandle)]
    IN  IF repo.res.kind # "Ok" THEN Fail(f, repo.res)
        ELSE IF Exists(f, path) /\ ~IsDir(f, path) THEN Fail(f, Outcome("Err", "NotADirectory"))
        ELSE IF Exists(f, path) /\ Cardinality(Children(f, path)) > 0
        THEN Fail(f, Outcome("Err", "NotEmpty"))
        ELSE IF ~Exists(f, path) /\ ~CanCreateDirAll(f, path)
        THEN Fail(f, Outcome("Panic", "CreateDirAll"))
        ELSE LET f1 == IF Exists(f, path) THEN f ELSE CreateDirAll(f, path)
                 d == MakeDirs(f1, h.gitdir, 1)
             IN  IF d.res.kind # "Ok" THEN Fail(d.fs, d.res)
                 ELSE LET w == WriteFiles(d.fs, h.gitdir, 1)
                      IN  IF w.res.kind # "Ok" THEN Fail(w.fs, w.res)
                          ELSE [fs |-> w.fs, ret |-> Ret(Outcome("Ok", ""), h)]

-----------------------------------------------------------------------------
(* object_write, object_read.                                              *)

HexDigits == <<"0", "1", "2", "3", "4", "5", "6", "7", "8", "9", "a", "b", "c", "d", "e", "f">>
Hex(n) == HexDigits[n + 1]

\* Sha1 is kept as a three digit digest of the bytes: two digits name the
\* fan-out directory, the rest names the file
RECURSIVE Digest(_, _)
Digest(h, s) == IF s = <<>> THEN h ELSE Digest((h * 33 + s[1] + 1) % 4096, Tail(s))

Sha1(bytes) ==
    LET h == Digest(Len(bytes), bytes)
    IN  [dir |-> Hex(h \div 256) \o Hex((h \div 16) % 16), file |-> Hex(h % 16)]

ObjectPath(gitdir, sha) == repo_path(gitdir, <<"objects", sha.dir, sha.file>>)

\* object_write(obj, actually_write) for a GitBlob of the repository `h`:
\* the file system after it and its return, which is the unit value
object_write(f, h, blobdata, actually_write) ==
    LET data == blobdata
        result == WriteEncode(Blob, data)
        sha == Sha1(result)
    IN  IF ~actually_write THEN Fx(f, Outcome("Ok", "Unit"))
        ELSE LET path == repo_file(f, h.gitdir, <<"objects", sha.dir, sha.file>>, actually_write)
             IN  IF path.res.kind = "Panic" THEN path
                 ELSE Fx(path.fs, Outcome("Ok", "Unit"))

\* ZlibDecoder::get_ref: the reader the decoder wraps, that is the file's
\* bytes as they are
GetRef(raw) == raw

\* object_read(repo, sha)
object_read(f, h, sha) ==
    LET path == repo_file(f, h.gitdir, <<"objects", sha.dir, sha.file>>, FALSE)
        file == ObjectPath(h.gitdir, sha)
    IN  IF path.res.kind # "Ok" THEN Failed(path.res)
        ELSE IF ~IsFile(f, file) THEN Failed(Outcome("Panic", "Read"))
        ELSE Decode(GetRef(f.files[file].bytes))

-----------------------------------------------------------------------------
(* repo_find.                                                              *)

\* the path the recursive call is given
RecurseArg(path) == path

\* One frame of repo_find(path, required): a return, or the call it makes
FindFrame(f, path) ==
    IF ~Exists(f, path) THEN [call |-> FALSE, ret |-> Ret(Outcome("Panic", "Canonicalize"), NoHandle)]
    ELSE IF IsDir(f, Join(path, GitName))
    THEN [call |-> FALSE, ret |-> GitRepositoryNew(f, path, FALSE)]
    ELSE IF path # Root
    THEN [call |-> TRUE, ret |-> Ret(Outcome("Running", ""), NoHandle)]
    ELSE [call |-> FALSE, ret |-> Ret(Outcome("Err", "NotARepository"), NoHandle)]

-----------------------------------------------------------------------------
(* The file systems the operations start from.                             *)

EmptyFs == [dirs |-> {Root}, files |-> [q \in {} |-> GarbageFile]]

RemoveFile(f, p) == [f EXCEPT !.files = [q \in DOMAIN f.files \ {p} |-> f.files[q]]]

W == <<"w">>
Sub == <<"w", "sub">>
Deep == <<"w", "sub", "deep">>
F == <<"f">>
D == <<"d">>
N == <<"n">>

\* byte sequences of length at most n over the bytes of `alphabet`
RECURSIVE SeqsUpTo(_, _)
SeqsUpTo(alphabet, n) ==
    IF n = 0 THEN {<<>>}
    ELSE LET shorter == SeqsUpTo(alphabet, n - 1)
         IN  shorter \cup {Append(t, b) : t \in shorter, b \in alphabet}

\* the texts a config carries as its repositoryformatversion: the versions
\* up to MaxVers, and a text that is no unsigned integer
VersTexts == {Dec(v) : v \in 0..MaxVers} \cup {<<120>>}

ConfigVariants ==
    {[k |-> x, t |-> <<>>] : x \in {"none", "dir", "garbage", "novers"}}
        \cup {[k |-> "vers", t |-> t] : t \in VersTexts}

\* the repository at `w` with its config file changed
WithConfig(f, w, c) ==
    LET cfg == Join(Join(w, GitName), "config")
    IN  CASE c.k = "none" -> RemoveFile(f, cfg)
          [] c.k = "dir" -> CreateDirAll(RemoveFile(f, cfg), cfg)
          [] c.k = "garbage" -> WriteFile(f, cfg, GarbageFile)
          [] c.k = "novers" ->
                WriteFile(f, cfg, IniFile([k \in {"filemode", "bare"} |-> FalseText]))
          [] OTHER -> WriteFile(f, cfg, IniFile([repo_default_config EXCEPT ![VersKey] = c.t]))

\* an object stored by another writer: the canonical form of the blob "a"
StoredBlob == CanonicalEncode(Blob, <<97>>)

WithObject(f, w, o) ==
    LET sha == Sha1(StoredBlob)
        file == ObjectPath(Join(w, GitName), sha)
    IN  CASE o = "none" -> f
          [] o = "fanout" -> CreateDirAll(f, Parent(file))
          [] OTHER -> WriteFile(CreateDirAll(f, Parent(file)), file, BytesFile(StoredBlob))

WVariants ==
    {[k |-> x, cfg |-> [k |-> "vers", t |-> Dec(0)], inner |-> FALSE, obj |-> "none"] :
        x \in {"none", "nogit"}}
    \cup {[k |-> "repo", cfg |-> c, inner |-> FALSE, obj |-> "none"] : c \in ConfigVariants}
    \cup {[k |-> "repo", cfg |-> [k |-> "vers", t |-> Dec(0)], inner |-> i, obj |-> o] :
            i \in BOOLEAN, o \in {"none", "fanout", "file"}}

DVariants == {"none", "empty", "junk", "badcfg"}

WithW(f, v) ==
    IF v.k = "none" THEN f
    ELSE IF v.k = "nogit" THEN CreateDirAll(f, Deep)
    ELSE LET outer == WithObject(WithConfig(repo_create(f, W).fs, W, v.cfg), W, v.obj)
             inner == IF v.inner THEN repo_create(outer, Sub).fs ELSE outer
         IN  CreateDirAll(inner, Deep)

WithD(f, v) ==
    CASE v = "none" -> f
      [] v = "empty" -> CreateDirAll(f, D)
      [] v = "junk" -> WriteFile(CreateDirAll(f, D), Join(D, "junk"), TextFile("x"))
      [] OTHER -> CreateDirAll(f, Join(Join(D, GitName), "config"))

\* a file f, and either one of the trees below w or one of the trees below d
BaseFs == WriteFile(EmptyFs, F, TextFile("x"))
InitFs == {WithW(BaseFs, w) : w \in WVariants} \cup {WithD(BaseFs, d) : d \in DVariants}

CreatePaths == {N, Join(N, "m"), F, Join(F, "x"), D, W}
OpenPaths == {W, Sub, D, N}
FindPaths == {Root, W, Sub, Deep, N}
ObjectRepos == {W}
WritePayloads == SeqsUpTo({97}, MaxLen)
ReadHashes == {Sha1(WriteEncode(Blob, p)) : p \in WritePayloads} \cup {Sha1(StoredBlob)}

-----------------------------------------------------------------------------
(* The operations.                                                         *)

NoSha == [dir |-> "", file |-> ""]

\* the last operation: its arguments, the file system it started from, and
\* its return
Last(op, path, flag, payload, sha, pre, ret) ==
    [op |-> op, path |-> path, flag |-> flag, payload |-> payload, sha |-> sha,
     pre |-> pre, res |-> ret.res, handle |-> ret.handle]

Idle == [pc |-> "idle", path |-> Root, depth |-> 0]

NoOrigin == [kind |-> "none", fmt |-> <<>>, declared |-> 0, payload |-> <<>>]

InitCodec ==
    /\ buf = <<>>
    /\ decoded = Failed(Outcome("None", ""))
    /\ origin = NoOrigin

Init ==
    /\ fs \in InitFs
    /\ last = Last("none", Root, FALSE, <<>>, NoSha, fs, Ret(Outcome("None", ""), NoHandle))
    /\ find = Idle
    /\ InitCodec

\* GitRepository::new(path, force)
Open(path, force) ==
    /\ find.pc = "idle"
    /\ last' = Last("open", path, force, <<>>, NoSha, fs, GitRepositoryNew(fs, path, force))
    /\ UNCHANGED <<fs, find, buf, decoded, origin>>

\* GitRepository::repo_create(path)
Create(path) ==
    /\ find.pc = "idle"
    /\ LET r == repo_create(fs, path)
       IN  /\ fs' = r.fs
           /\ last' = Last("create", path, TRUE, <<>>, NoSha, fs, r.ret)
    /\ UNCHANGED <<find, buf, decoded, origin>>

\* repo_find(path, required): the outermost call
FindCall(path) ==
    /\ find.pc = "idle"
    /\ LET fr == FindFrame(fs, path)
       IN  /\ last' = Last("find", path, FALSE, <<>>, NoSha, fs, fr.ret)
           /\ find' = IF fr.call THEN [pc |-> "call", path |-> RecurseArg(path), depth |-> 1]
                      ELSE Idle
    /\ UNCHANGED <<fs, buf, decoded, origin>>

\* repo_find: a nested call, while the stack has room for its frame
FindStep ==
    /\ find.pc = "call"
    /\ find.depth < MaxStack
    /\ LET fr == FindFrame(fs, find.path)
       IN  /\ last' = [last EXCEPT !.res = fr.ret.res, !.handle = fr.ret.handle]
           /\ find' = IF fr.call
                      THEN [pc |-> "call", path |-> RecurseArg(find.path), depth |-> find.depth + 1]
                      ELSE Idle
    /\ UNCHANGED <<fs, buf, decoded, origin>>

\* repo_find: the call for which the stack has no room left aborts the process
FindOverflow ==
    /\ find.pc = "call"
    /\ find.depth = MaxStack
    /\ last' = [last EXCEPT !.res = Outcome("Panic", "StackOverflow")]
    /\ find' = Idle
    /\ UNCHANGED <<fs, buf, decoded, origin>>

\* object_write(obj, actually_write) with a blob, on an opened repository
Write(w, blobdata, actually_write) ==
    /\ find.pc = "idle"
    /\ LET repo == GitRepositoryNew(fs, w, FALSE)
       IN  /\ repo.res.kind = "Ok"
           /\ LET r == object_write(fs, repo.handle, blobdata, actually_write)
              IN  /\ fs' = r.fs
                  /\ last' = Last("write", w, actually_write, blobdata,
                                  Sha1(WriteEncode(Blob, blobdata)), fs, Ret(r.res, repo.handle))
    /\ UNCHANGED <<find, buf, decoded, origin>>

\* object_read(repo, sha) on an opened repository
Read(w, sha) ==
    /\ find.pc = "idle"
    /\ LET repo == GitRepositoryNew(fs, w, FALSE)
       IN  /\ repo.res.kind = "Ok"
           /\ last' = Last("read", w, FALSE, <<>>, sha, fs,
                           Ret(object_read(fs, repo.handle, sha).res, repo.handle))
    /\ UNCHANGED <<fs, find, buf, decoded, origin>>

Next ==
    \/ \E p \in OpenPaths, force \in BOOLEAN : Open(p, force)
    \/ \E p \in CreatePaths : Create(p)
    \/ \E p \in FindPaths : FindCall(p)
    \/ FindStep
    \/ FindOverflow
    \/ \E w \in ObjectRepos, p \in WritePayloads, a \in BOOLEAN : Write(w, p, a)
    \/ \E w \in ObjectRepos, sha \in ReadHashes : Read(w, sha)

Spec == Init /\ [][Next]_vars

-----------------------------------------------------------------------------
(* The header parser on its own, over bounded buffers.                     *)

RawBytes == {SP, NUL, 49, 98}
PayloadBytes == {97, NUL, SP}
RawBufs == SeqsUpTo(RawBytes, MaxBuf)
Payloads == SeqsUpTo(PayloadBytes, MaxLen)

InitParser ==
    /\ fs = EmptyFs
    /\ last = Last("none", Root, FALSE, <<>>, NoSha, fs, Ret(Outcome("None", ""), NoHandle))
    /\ find = Idle
    /\ InitCodec

\* the parser over arbitrary bytes
DecodeRaw(b) ==
    /\ buf' = b
    /\ decoded' = Decode(b)
    /\ origin' = [NoOrigin EXCEPT !.kind = "raw"]
    /\ UNCHANGED <<fs, last, find>>

\* the parser over a buffer with a well-formed header that declares n bytes
DecodeHeader(fmt, n, payload) ==
    /\ buf' = Header(fmt, n, payload)
    /\ decoded' = Decode(buf')
    /\ origin' = [kind |-> "header", fmt |-> fmt, declared |-> n, payload |-> payload]
    /\ UNCHANGED <<fs, last, find>>

\* the parser over the bytes object_write builds for a blob
DecodeWritten(payload) ==
    /\ buf' = WriteEncode(Blob, payload)
    /\ decoded' = Decode(buf')
    /\ origin' = [kind |-> "written", fmt |-> Blob, declared |-> Len(payload), payload |-> payload]
    /\ UNCHANGED <<fs, last, find>>

NextParser ==
    \/ \E b \in RawBufs : DecodeRaw(b)
    \/ \E fmt \in TypeTags, n \in 0..(MaxLen + 1), p \in Payloads : DecodeHeader(fmt, n, p)
    \/ \E p \in Payloads : DecodeWritten(p)

SpecParser == InitParser /\ [][NextParser]_vars

-----------------------------------------------------------------------------
(* Properties.                                                             *)

FindReturned == last.op = "find" /\ find.pc = "idle"
HasGit(f, p) == IsDir(f, Join(p, GitName))
NoRepoAbove(f, p) == \A q \in Prefixes(p) : ~HasGit(f, q)
NearestRepo(f, p) ==
    CHOOSE q \in Prefixes(p) : HasGit(f, q) /\ \A r \in Prefixes(p) : HasGit(f, r) => Len(r) <= Len(q)

\* C1: repo_find started at an existing path with no metadata directory at
\* it or above it hands each nested call the parent of the directory it
\* looked at, and returns the error NotARepository.
C1_FindEndsNotARepository ==
    (last.op = "find" /\ Exists(last.pre, last.path) /\ NoRepoAbove(last.pre, last.path)) =>
        /\ find.pc = "call" =>
              find.path = SubSeq(last.path, 1, Len(last.path) - find.depth)
        /\ FindReturned => last.res = Outcome("Err", "NotARepository")

\* the start path lies strictly below the nearest directory that holds a
\* metadata directory, and that directory opens as a version 0 repository
NestedInRepo(f, p) ==
    /\ Exists(f, p)
    /\ ~HasGit(f, p)
    /\ ~NoRepoAbove(f, p)
    /\ GitRepositoryNew(f, NearestRepo(f, p), FALSE).res.kind = "Ok"

\* C2: repo_find started in a nested subdirectory of a valid repository
\* returns a handle whose worktree is the nearest ancestor that holds the
\* metadata directory.
C2_FindFromSubdirectory ==
    (FindReturned /\ NestedInRepo(last.pre, last.path)) =>
        /\ last.res.kind = "Ok"
        /\ last.handle.worktree = NearestRepo(last.pre, last.path)

\* C3: after a persisting write of a blob its object file
\* objects/<hash[0:2]>/<hash[2:]> exists, and a file that was there before
\* the write has kept its contents.
C3_WriteIdempotent ==
    (last.op = "write" /\ last.flag) =>
        LET file == ObjectPath(last.handle.gitdir, last.sha)
        IN  /\ IsFile(fs, file)
            /\ IsFile(last.pre, file) => fs.files[file] = last.pre.files[file]

\* C4: the parser given the canonical encoding of an object of type T and
\* payload P returns Ok of that type and payload.
C4_RoundTrip ==
    (origin.kind = "header" /\ origin.declared = Len(origin.payload)) =>
        decoded = Parsed(Outcome("Ok", ""), origin.fmt, origin.payload)

\* C5: on a buffer with a well-formed header the parser fails with
\* LengthMismatch exactly when the number of bytes after the NUL differs
\* from the number written between the space and the NUL.
C5_LengthMismatchExact ==
    origin.kind = "header" =>
        (decoded.res = Outcome("Err", "LengthMismatch") <=> origin.declared # Len(origin.payload))

NoSpaceBeforeNul(b) ==
    \/ \A i \in 1..Len(b) : b[i] # SP
    \/ \E i \in 1..Len(b) : b[i] = NUL /\ \A j \in 1..i : b[j] # SP

\* C6: the parser given a buffer with no space, or with a NUL before its
\* first space, returns the error MalformedHeader.
C6_NoSpaceBeforeNul ==
    (origin.kind = "raw" /\ NoSpaceBeforeNul(buf)) =>
        decoded.res = Outcome("Err", "MalformedHeader")

\* C7: object_read of a hash whose object path does not exist returns its
\* not-found error as an Err value and leaves the file system as it was.
C7_ReadMissingObject ==
    (last.op = "read" /\ ~Exists(last.pre, ObjectPath(last.handle.gitdir, last.sha))) =>
        /\ last.res = Outcome("Err", "FailedToCreateDir")
        /\ fs = last.pre

\* the skeleton of a fresh repository below the worktree w
SkeletonAt(f, w) ==
    LET g == Join(w, GitName)
    IN  /\ \A d \in {<<"objects">>, <<"refs", "heads">>, <<"refs", "tags">>, <<"branches">>} :
              IsDir(f, g \o d)
        /\ IsFile(f, Join(g, "description"))
        /\ IsFile(f, Join(g, "HEAD"))
        /\ f.files[Join(g, "HEAD")] = TextFile("ref: refs/heads/master\n")
        /\ IsFile(f, Join(g, "config"))
        /\ f.files[Join(g, "config")].kind = "ini"
        /\ f.files[Join(g, "config")].ini =
              [k \in {"repositoryformatversion", "filemode", "bare"} |->
                  IF k = "repositoryformatversion" THEN <<48>> ELSE <<102, 97, 108, 115, 101>>]

\* C8 as stated: repo_create on any path that does not exist returns Ok and
\* leaves the skeleton.
C8_CreateOnNonexistent ==
    (last.op = "create" /\ ~Exists(last.pre, last.path)) =>
        last.res.kind = "Ok" /\ SkeletonAt(fs, last.path)

NoFileAbove(f, p) == \A q \in Prefixes(p) : ~IsFile(f, q)

\* C8 amended: repo_create on a path that does not exist and has no file
\* among its ancestors returns Ok and leaves, under the metadata directory,
\* objects/, refs/heads/, refs/tags/, branches/, a description file, HEAD
\* holding exactly "ref: refs/heads/master\n", and the default config.
C8_CreateBootstraps ==
    (last.op = "create" /\ ~Exists(last.pre, last.path) /\ NoFileAbove(last.pre, last.path)) =>
        /\ last.res.kind = "Ok"
        /\ last.handle.worktree = last.path
        /\ SkeletonAt(fs, last.path)

\* a repository was created at a path whose parent did not exist either
C8_Witness ==
    /\ last.op = "create"
    /\ last.path = Join(N, "m")
    /\ ~Exists(last.pre, N)
    /\ last.res.kind = "Ok"
    /\ SkeletonAt(fs, last.path)

\* C9: repo_create on an existing path that is no directory returns
\* NotADirectory, on an existing directory that is not empty returns
\* NotEmpty, and in both cases writes nothing.
C9_CreateRefusesExisting ==
    last.op = "create" =>
        /\ IsFile(last.pre, last.path) =>
              last.res = Outcome("Err", "NotADirectory") /\ fs = last.pre
        /\ (IsDir(last.pre, last.path) /\ Children(last.pre, last.path) # {}) =>
              last.res = Outcome("Err", "NotEmpty") /\ fs = last.pre

\* the version v the config of the repository at w declares, -1 when the
\* config is absent, unreadable, or carries no such number
DeclaredVersion(f, w) ==
    LET cfg == Join(Join(w, GitName), "config")
        Declares(v) ==
            /\ IsFile(f, cfg)
            /\ f.files[cfg].kind = "ini"
            /\ "repositoryformatversion" \in DOMAIN f.files[cfg].ini
            /\ f.files[cfg].ini["repositoryformatversion"] = Dec(v)
    IN  IF \E v \in 0..MaxVers : Declares(v) THEN CHOOSE v \in 0..MaxVers : Declares(v) ELSE -1

\* C10: GitRepository::new without force on a repository whose config
\* declares version v # 0 returns UnsupportedFormatVersion(v) and no handle;
\* it returns a handle only when the declared version is 0.
C10_VersionGate ==
    (last.op = "open" /\ ~last.flag) =>
        LET v == DeclaredVersion(last.pre, last.path)
        IN  /\ (HasGit(last.pre, last.path) /\ v > 0) =>
                  /\ last.res = OutcomeV("Err", "UnsupportedFormatVersion", v)
                  /\ last.handle = NoHandle
            /\ last.res.kind = "Ok" => (v = 0 /\ last.handle.worktree = last.path)

\* a repository declaring the largest version was refused
C10_Witness ==
    /\ last.op = "open"
    /\ ~last.flag
    /\ DeclaredVersion(last.pre, last.path) = MaxVers
    /\ last.res = OutcomeV("Err", "UnsupportedFormatVersion", MaxVers)

====
